---- MODULE Spec2Model ----
(***************************************************************************)
(* A model of querynator's CGI client, query_api/cgi/cgi_api.py: the       *)
(* pipeline query_cgi = prepare_cgi_query_file ; submit_query_cgi ;        *)
(* status_done ; download_cgi ; add_cgi_metadata, together with the remote *)
(* service's answers and the files of the working directory.               *)
(*                                                                         *)
(* Strings that the code only passes around are TLA+ strings.  Strings the *)
(* code searches (the log lines) are sequences of pieces, so that ''.join  *)
(* is concatenation and `in` is a search for a contiguous subsequence.     *)
(* The job URL is <<base, job id>>; url[:-20] reads only the id's length.  *)
(***************************************************************************)
EXTENDS Integers, Sequences, FiniteSets, TLC

\* ------------------------------------------------------------------ bounds
\* the largest number of data rows of an input variant file
MaxRows == 3
\* the largest number of log lines in one poll response
MaxLines == 2

\* ------------------------------------------------------- program constants
\* `if counter == 5`
MaxCounter == 5
\* time.sleep(60)
SleepSeconds == 60
\* Retry(total=3, ...)
RetryTotal == 3
\* cgi_file.iloc[:,:5]
KeepCols == 5
\* url[:-20]
StripLen == 20
\* len('https://www.cancergenomeinterpreter.org/api/v1/')
BaseLen == 47

status_forcelist == {429, 500, 502, 503, 504}
allowed_methods == {"HEAD", "GET", "OPTIONS"}

\* ------------------------------------------------------------ hg_assembly
\* a plausible slip: the two assemblies swapped
hg_assembly_swapped(g) ==
    IF g = "GRCh37" THEN "hg38" ELSE IF g = "GRCh38" THEN "hg19" ELSE g

\* two `if`s in sequence, the second reading the result of the first
hg_assembly(g) ==
    LET g1 == IF g = "GRCh37" THEN "hg19" ELSE g
        g2 == IF g1 = "GRCh38" THEN "hg38" ELSE g1
    IN  g2

\* ------------------------------------------------- prepare_cgi_query_file
\* the header line of the input file; data rows have one cell per name
Header == <<"CHROM", "POS", "ID", "REF", "ALT", "INFO">>

\* cells that pandas.read_csv reads as a missing value (of its default list)
na_values == {"", "NA"}
\* cells that parse as a number, and the number's canonical decimal text
NumTokens == {"100", "0100"}
Canon(t) == IF t = "0100" THEN "100" ELSE t
\* how to_csv writes a float64 value
FloatText(t) == IF t = "100" THEN "100.0" ELSE t

PosTokens == {"100", "0100", "p"}
IdTokens == {"NA", ""}
Extras == {"x", "y"}
InputRows ==
    {<<"chr1", p, i, "A", "T", e>> : p \in PosTokens, i \in IdTokens, e \in Extras}
Inputs(n) == UNION {[1..k -> InputRows] : k \in 0..n}

Column(rows, c) == [i \in 1..Len(rows) |-> rows[i][c]]

\* read_csv infers one dtype per column, from all of the column's cells
Dtype(col) ==
    IF \A i \in DOMAIN col : col[i] \in na_values \cup NumTokens
    THEN IF \E i \in DOMAIN col : col[i] \in na_values THEN "float64" ELSE "int64"
    ELSE "object"

\* a parsed cell: <<kind, text>>, numbers by their canonical text
ParseCell(col, i) ==
    IF col[i] \in na_values THEN <<"nan", "">>
    ELSE IF Dtype(col) = "object" THEN <<"str", col[i]>>
    ELSE <<Dtype(col), Canon(col[i])>>

read_csv(rows) ==
    [i \in 1..Len(rows) |->
        [c \in 1..Len(Header) |-> ParseCell(Column(rows, c), i)]]

iloc(frame) == [i \in 1..Len(frame) |-> SubSeq(frame[i], 1, KeepCols)]

\* a plausible slip: only a row equal to the row right before it is dropped
drop_adjacent_duplicates(frame) ==
    LET F[k \in 0..Len(frame)] ==
            IF k = 0 THEN <<>>
            ELSE IF k > 1 /\ frame[k - 1] = frame[k] THEN F[k - 1]
            ELSE Append(F[k - 1], frame[k])
    IN  F[Len(frame)]

\* DataFrame.drop_duplicates(): keep='first', missing values equal each other
drop_duplicates(frame) ==
    LET F[k \in 0..Len(frame)] ==
            IF k = 0 THEN <<>>
            ELSE IF \E j \in 1..(k - 1) : frame[j] = frame[k] THEN F[k - 1]
            ELSE Append(F[k - 1], frame[k])
    IN  F[Len(frame)]

FormatCell(v) == IF v[1] = "float64" THEN FloatText(v[2]) ELSE v[2]

to_csv(names, frame) ==
    [header |-> names,
     rows   |-> [i \in 1..Len(frame) |->
                    [c \in 1..Len(frame[i]) |-> FormatCell(frame[i][c])]]]

\* the file prepare_cgi_query_file writes for input rows `rows` and sample `out`
PreparedFile(rows, out) ==
    LET cgi_file == drop_duplicates(iloc(read_csv(rows)))
        labelled == [i \in 1..Len(cgi_file) |-> Append(cgi_file[i], <<"str", out>>)]
    IN  to_csv(Append(SubSeq(Header, 1, KeepCols), "SAMPLE"), labelled)

\* ------------------------------------------------------ the remote service
output == "sample1"
cancer_name == "BRCA"
Genomes == {"GRCh37", "GRCh38", "hg19", "mm10"}

\* HTTP statuses the service answers with: success, a client error, and a
\* transient server error of status_forcelist
Statuses == {200, 404, 500}

Base == "https://www.cancergenomeinterpreter.org/api/v1/"
\* job ids the service hands out: one of 20 characters, one of 8
JobIds == {"0123456789abcdefghij", "short-id"}
JobIdLen(j) == IF j = "0123456789abcdefghij" THEN StripLen ELSE StripLen - 12
NotJson == "<html>"

\* a plausible slip: only server errors taken for errors
raise_for_server_errors(status) == status >= 500

\* Response.raise_for_status(): raises HTTPError for 4xx and 5xx
raise_for_status(status) == status >= 400

\* ---- log text: a string is a sequence of pieces
Marker == <<"Analysis ", "done">>
LogLines ==
    {<<"x">>, <<"Analysis ">>, <<"done">>, <<"Analysis ", "done">>,
     <<"x", "Analysis ", "done", "x">>}
LogBodies == UNION {[1..k -> LogLines] : k \in 0..MaxLines}

RECURSIVE Join(_)
\* ''.join(lines)
Join(lines) == IF lines = <<>> THEN <<>> ELSE Head(lines) \o Join(Tail(lines))

\* m in s
Contains(s, m) ==
    \E i \in 0..(Len(s) - Len(m)) : SubSeq(s, i + 1, i + Len(m)) = m

\* a plausible slip: the marker looked for in each line separately
MarkerInSomeLine(logs) == \E i \in DOMAIN logs : Contains(logs[i], Marker)

\* 'Analysis done' in ''.join(log['logs'])
MarkerIn(logs) == Contains(Join(logs), Marker)

\* a plausible slip: the ceiling tested one poll late
TimedOutLate(c) == c = MaxCounter + 1

\* if counter == 5
TimedOut(c) == c = MaxCounter

\* the outcome of one request: an exception raised by the transport, or a response
NetErr == [kind |-> "neterr", status |-> 0, body |-> "", logs |-> <<>>]
PostOutcomes ==
    {NetErr} \cup
    {[kind |-> "response", status |-> s, body |-> b, logs |-> <<>>] :
        s \in Statuses, b \in JobIds \cup {NotJson}}
PollOutcomes ==
    {NetErr} \cup
    {[kind |-> "response", status |-> s, body |-> b, logs |-> <<>>] :
        s \in Statuses, b \in {NotJson, "nologs"}} \cup
    {[kind |-> "response", status |-> s, body |-> "logs", logs |-> l] :
        s \in Statuses, l \in LogBodies}
DownloadOutcomes ==
    {NetErr} \cup
    {[kind |-> "response", status |-> s,
      body |-> IF s = 200 THEN "archive" ELSE "errbody", logs |-> <<>>] :
        s \in Statuses}

\* the transport a poll goes through: requests.get, not the mounted session
PollVia == "requests"
\* how often the adapter re-sends a request answered with `status`
Resends(via, status) ==
    IF via = "http" /\ status \in status_forcelist /\ "GET" \in allowed_methods
    THEN RetryTotal ELSE 0

TimeoutMsg == "Query took too looong :-("
OopsMsg == "Ooops, sth went wrong with the download. Sorry for the inconvenience."

NoFile == [header |-> <<>>, rows |-> <<>>]
NoPayload == [cancer_type |-> "", title |-> "", reference |-> ""]
NoLog == [kind |-> "unset", logs |-> <<>>]
NoExc == <<"none", "none">>
NoMetadata == [date |-> "", api_version |-> ""]

\* url[:-20], by the number of characters it keeps
ApiVersion(u) ==
    LET keep == BaseLen + JobIdLen(u[2]) - StripLen
    IN  IF keep = BaseLen THEN u[1] ELSE "base-and-some-of-the-job-id"

VARIABLES
    pc,         \* where the pipeline is
    exc,        \* <<exception type, where raised>> once the program has died
    input,      \* the data rows of the input variant file
    genome,     \* the genome argument
    cgi_input,  \* <output>.cgi_input.tsv
    payload,    \* the form fields of the submission
    posts,      \* POST requests sent
    postStatus, \* status of the submission's response, 0 if none
    url,        \* the job URL, <<>> until submit_query_cgi returns one
    http,       \* the retry-configured session of status_done
    counter,    \* status_done's counter
    log,        \* status_done's log
    gets,       \* GET requests with action=logs issued by status_done
    pollSends,  \* times the latest poll was sent on the wire
    pollStatus, \* status of the latest poll's response, 0 if none
    sleeps,     \* calls of time.sleep
    clock,      \* time slept
    printed,    \* messages printed
    logged,     \* messages given to logger.info
    done,       \* status_done's return value, once returned
    zip,        \* <output>.cgi_results.zip
    downloads,  \* GET requests with action=download
    dlStatus,   \* status of the download's response, 0 if none
    extracted,  \* <output>.cgi_results/ extracted by this run
    metadata    \* <output>.cgi_results/metadata.txt written by this run

vars ==
    <<pc, exc, input, genome, cgi_input, payload, posts, postStatus, url, http,
      counter, log, gets, pollSends, pollStatus, sleeps, clock, printed, logged,
      done, zip, downloads, dlStatus, extracted, metadata>>

submitVars == <<payload, posts, postStatus, url>>
pollVars == <<http, counter, log, gets, pollSends, pollStatus, sleeps, clock>>
fetchVars == <<zip, downloads, dlStatus, extracted, metadata>>

InitWith(inputs, genomes, zips) ==
    /\ pc = "prepare"
    /\ exc = NoExc
    /\ input \in inputs
    /\ genome \in genomes
    /\ cgi_input = NoFile
    /\ payload = NoPayload
    /\ posts = 0
    /\ postStatus = 0
    /\ url = <<>>
    /\ http = [mounted |-> FALSE, total |-> 0, sent |-> 0]
    /\ counter = 0
    /\ log = NoLog
    /\ gets = 0
    /\ pollSends = 0
    /\ pollStatus = 0
    /\ sleeps = 0
    /\ clock = 0
    /\ printed = {}
    /\ logged = {}
    /\ done = FALSE
    /\ zip \in zips
    /\ downloads = 0
    /\ dlStatus = 0
    /\ extracted = FALSE
    /\ metadata = NoMetadata

\* the variant file of the pipeline runs: a row, its duplicate, another row
ExampleInput ==
    << <<"chr1", "100", "NA", "A", "T", "x">>,
       <<"chr1", "100", "NA", "A", "T", "x">>,
       <<"chr1", "p", "", "A", "T", "y">> >>

\* the working directory may hold an archive of an earlier run of the sample
Init == InitWith({ExampleInput}, Genomes, {"absent", "stale"})

\* runs of the input preparer alone, over every input file within MaxRows
InitPrepare == InitWith(Inputs(MaxRows), {"hg19"}, {"absent"})

Raise(type, at) == pc' = "halted" /\ exc' = <<type, at>>

\* --------------------------------------------------------------- actions
prepare_cgi_query_file ==
    /\ pc = "prepare"
    /\ cgi_input' = PreparedFile(input, output)
    /\ pc' = "submit"
    /\ UNCHANGED <<exc, input, genome, submitVars, pollVars, printed, logged,
                   done, fetchVars>>

submit_query_cgi ==
    /\ pc = "submit"
    /\ logged' = logged \cup {"Querying REST API"}
    /\ payload' = [cancer_type |-> cancer_name, title |-> "CGI_query",
                   reference |-> hg_assembly(genome)]
    /\ posts' = posts + 1
    /\ \E r \in PostOutcomes :
          /\ postStatus' = r.status
          /\ IF r.kind = "neterr"
             THEN Raise("ConnectionError", "submit") /\ url' = url
             ELSE IF raise_for_status(r.status)
             THEN Raise("SystemExit", "submit") /\ url' = url
             ELSE IF r.body = NotJson
             THEN Raise("JSONDecodeError", "submit") /\ url' = url
             ELSE url' = <<Base, r.body>> /\ pc' = "first_poll" /\ exc' = exc
    /\ UNCHANGED <<input, genome, cgi_input, pollVars, printed, done, fetchVars>>

\* status_done up to and including its first GET: the counter, the session
\* with the retry adapter mounted, then requests.get without raise_for_status
status_done_first_poll ==
    /\ pc = "first_poll"
    /\ counter' = 0
    /\ gets' = gets + 1
    /\ \E r \in PollOutcomes :
          /\ pollStatus' = r.status
          /\ pollSends' = 1 + Resends(PollVia, r.status)
          /\ http' = [mounted |-> TRUE, total |-> RetryTotal,
                      sent |-> IF PollVia = "http" THEN pollSends' ELSE 0]
          /\ IF r.kind = "neterr"
             THEN Raise("ConnectionError", "first_poll") /\ log' = log
             ELSE IF r.body = NotJson
             THEN Raise("JSONDecodeError", "first_poll") /\ log' = log
             ELSE /\ log' = [kind |-> r.body, logs |-> r.logs]
                  /\ pc' = "loop"
                  /\ exc' = exc
    /\ UNCHANGED <<input, genome, cgi_input, submitVars, sleeps, clock, printed,
                   logged, done, fetchVars>>

\* the while condition and the ceiling test
status_done_loop ==
    /\ pc = "loop"
    /\ IF log.kind # "logs"
       THEN Raise("KeyError", "loop") /\ printed' = printed
       ELSE IF MarkerIn(log.logs)
       THEN pc' = "return" /\ exc' = exc /\ printed' = printed
       ELSE IF TimedOut(counter)
       THEN pc' = "return" /\ exc' = exc /\ printed' = printed \cup {TimeoutMsg}
       ELSE pc' = "sleep" /\ exc' = exc /\ printed' = printed
    /\ UNCHANGED <<input, genome, cgi_input, submitVars, pollVars, logged, done,
                   fetchVars>>

status_done_sleep ==
    /\ pc = "sleep"
    /\ sleeps' = sleeps + 1
    /\ clock' = clock + SleepSeconds
    /\ pc' = "retry_poll"
    /\ UNCHANGED <<exc, input, genome, cgi_input, submitVars, http, counter, log,
                   gets, pollSends, pollStatus, printed, logged, done, fetchVars>>

\* a plausible slip: the counter advanced before the response is looked at
AfterRetryPollCountFirst(r, c, lg) ==
    IF r.kind = "neterr"
    THEN [exc |-> "ConnectionError", counter |-> c, log |-> lg]
    ELSE IF raise_for_status(r.status)
    THEN [exc |-> "SystemExit", counter |-> c + 1, log |-> lg]
    ELSE IF r.body = NotJson
    THEN [exc |-> "JSONDecodeError", counter |-> c + 1, log |-> lg]
    ELSE [exc |-> "none", counter |-> c + 1,
          log |-> [kind |-> r.body, logs |-> r.logs]]

\* the try block of the loop: what outcome r of the GET makes of counter and
\* log, and the exception that leaves status_done, if any.  Only HTTPError is
\* caught (and re-raised as SystemExit).
AfterRetryPoll(r, c, lg) ==
    IF r.kind = "neterr"
    THEN [exc |-> "ConnectionError", counter |-> c, log |-> lg]
    ELSE IF raise_for_status(r.status)
    THEN [exc |-> "SystemExit", counter |-> c, log |-> lg]
    ELSE IF r.body = NotJson
    THEN [exc |-> "JSONDecodeError", counter |-> c + 1, log |-> lg]
    ELSE [exc |-> "none", counter |-> c + 1,
          log |-> [kind |-> r.body, logs |-> r.logs]]

status_done_retry_poll ==
    /\ pc = "retry_poll"
    /\ gets' = gets + 1
    /\ \E r \in PollOutcomes :
          LET after == AfterRetryPoll(r, counter, log) IN
          /\ pollStatus' = r.status
          /\ pollSends' = 1 + Resends(PollVia, r.status)
          /\ http' = [http EXCEPT !.sent =
                         @ + IF PollVia = "http" THEN pollSends' ELSE 0]
          /\ counter' = after.counter
          /\ log' = after.log
          /\ IF after.exc = "none"
             THEN pc' = "loop" /\ exc' = exc
             ELSE Raise(after.exc, "retry_poll")
    /\ UNCHANGED <<input, genome, cgi_input, submitVars, sleeps, clock, printed,
                   logged, done, fetchVars>>

\* status_done returns True; query_cgi logs and takes the `if done` branch
status_done_return ==
    /\ pc = "return"
    /\ done' = TRUE
    /\ logged' = logged \cup {"CGI Query finished", "Downloading CGI results"}
    /\ pc' = "download"
    /\ UNCHANGED <<exc, input, genome, cgi_input, submitVars, pollVars, printed,
                   fetchVars>>

\* a plausible slip: the archive opened for writing before the GET is issued
ZipAfterFailedGetTruncated(z) == "empty"

\* the archive file when the GET raised: open() was never reached
ZipAfterFailedGet(z) == z

\* the whole of the try block: no raise_for_status, the body is written as is
download_cgi ==
    /\ pc = "download"
    /\ downloads' = downloads + 1
    /\ \E r \in DownloadOutcomes :
          /\ dlStatus' = r.status
          /\ IF r.kind = "neterr"
             THEN /\ printed' = printed \cup {OopsMsg}
                  /\ zip' = ZipAfterFailedGet(zip)
             ELSE /\ printed' = printed
                  /\ zip' = r.body
    /\ pc' = "add_metadata"
    /\ UNCHANGED <<exc, input, genome, cgi_input, submitVars, pollVars, logged,
                   done, extracted, metadata>>

add_cgi_metadata ==
    /\ pc = "add_metadata"
    /\ IF zip = "absent"
       THEN Raise("FileNotFoundError", "add_metadata")
            /\ UNCHANGED <<extracted, metadata>>
       ELSE IF zip \in {"errbody", "empty"}
       THEN Raise("BadZipFile", "add_metadata")
            /\ UNCHANGED <<extracted, metadata>>
       ELSE /\ extracted' = TRUE
            /\ metadata' = [date |-> "today", api_version |-> ApiVersion(url)]
            /\ pc' = "end"
            /\ exc' = exc
    /\ UNCHANGED <<input, genome, cgi_input, submitVars, pollVars, printed,
                   logged, done, zip, downloads, dlStatus>>

\* query_cgi
Next ==
    \/ prepare_cgi_query_file
    \/ submit_query_cgi
    \/ status_done_first_poll
    \/ status_done_loop
    \/ status_done_sleep
    \/ status_done_retry_poll
    \/ status_done_return
    \/ download_cgi
    \/ add_cgi_metadata

Spec == Init /\ [][Next]_vars

NextPrepare == prepare_cgi_query_file

SpecPrepare == InitPrepare /\ [][NextPrepare]_vars

\* ---------------------------------------------------------------- claims
\* the marker in the concatenated lines, stated piece by piece
ConcatHasMarker(logs) ==
    LET text == Join(logs)
    IN  \E i \in 1..(Len(text) - 1) : text[i] = "Analysis " /\ text[i + 1] = "done"

\* status_done has returned
AfterStatusDone ==
    \/ pc \in {"return", "download", "add_metadata", "end"}
    \/ pc = "halted" /\ exc[2] = "add_metadata"

\* C1: when no poll response carries the marker and no request fails, the
\* poller gives up after exactly 5 polls following the first (6 GETs, 5 sleeps
\* of 60), status_done returns without raising, and query_cgi goes on to call
\* download_cgi.
C1_TimeoutAfterFivePolls ==
    /\ [](TimeoutMsg \in printed =>
            /\ gets = 6 /\ sleeps = 5 /\ clock = 300 /\ counter = 5
            /\ AfterStatusDone)
    /\ []((AfterStatusDone /\ ~ConcatHasMarker(log.logs)) =>
            (TimeoutMsg \in printed /\ gets = 6))
    /\ []((TimeoutMsg \in printed /\ pc \notin {"return", "download"}) =>
            downloads = 1)
    /\ [][(TimeoutMsg \in printed /\ pc = "return") => pc' = "download"]_vars
    /\ [][(TimeoutMsg \in printed /\ pc = "download") =>
            downloads' = downloads + 1]_vars

\* every request answered with 200, no answer with the marker
C1_Witness ==
    /\ TimeoutMsg \in printed
    /\ postStatus = 200 /\ pollStatus = 200 /\ dlStatus = 200
    /\ gets = 6 /\ sleeps = 5
    /\ done
    /\ downloads = 1

\* C2: once the log of the latest poll holds the marker in the concatenation
\* of its lines, status_done returns: no further sleep, no further log GET,
\* and the timeout message is not printed.
C2_DoneOnMarker ==
    /\ [](ConcatHasMarker(log.logs) =>
            (TimeoutMsg \notin printed /\ (pc = "loop" \/ AfterStatusDone)))
    /\ [][ConcatHasMarker(log.logs) =>
            /\ gets' = gets /\ sleeps' = sleeps /\ log' = log
            /\ (pc = "loop" => pc' = "return")]_vars

\* the marker split over two lines, in the answer to the last permitted poll
C2_Witness ==
    /\ log.logs = << <<"Analysis ">>, <<"done">> >>
    /\ counter = 5
    /\ gets = 6
    /\ done
    /\ TimeoutMsg \notin printed

\* C3: an HTTP error status answering the submission ends the program with
\* SystemExit after exactly one POST: no poll, no download, no extraction, and
\* no job URL.
C3_SubmitErrorIsFatal ==
    postStatus >= 400 =>
        /\ pc = "halted" /\ exc = <<"SystemExit", "submit">>
        /\ posts = 1 /\ gets = 0 /\ sleeps = 0 /\ downloads = 0
        /\ url = <<>> /\ ~done /\ ~extracted /\ metadata = NoMetadata

C3_Witness == postStatus = 500 /\ pc = "halted" /\ posts = 1

\* C4 as stated: when the download GET raises, download_cgi swallows it and
\* writes no archive, and add_cgi_metadata then fails with a missing-archive
\* error, leaving neither the extracted directory nor metadata.txt.
C4_SwallowedThenMissingArchive ==
    OopsMsg \in printed =>
        /\ zip \in {"absent", "stale"}
        /\ \/ pc = "add_metadata"
           \/ /\ exc = <<"FileNotFoundError", "add_metadata">>
              /\ ~extracted /\ metadata = NoMetadata

\* C4 amended: when the download GET raises, download_cgi swallows it and
\* leaves the archive file as it was; add_cgi_metadata then fails with a
\* missing-archive error, and produces nothing, when no archive of that name
\* was there before the run, and extracts the old archive when one was.
C4_SwallowedThenMissingUnlessStale ==
    OopsMsg \in printed =>
        /\ dlStatus = 0 /\ downloads = 1
        /\ zip \in {"absent", "stale"}
        /\ pc \in {"add_metadata", "halted", "end"}
        /\ (zip = "absent" /\ pc # "add_metadata") =>
              /\ pc = "halted" /\ exc = <<"FileNotFoundError", "add_metadata">>
              /\ ~extracted /\ metadata = NoMetadata
        /\ (zip = "stale" /\ pc # "add_metadata") =>
              /\ pc = "end" /\ extracted /\ metadata # NoMetadata

C4_Witness ==
    /\ OopsMsg \in printed
    /\ zip = "absent"
    /\ exc = <<"FileNotFoundError", "add_metadata">>

\* the latest poll was a retry poll and it failed with a network or HTTP error
RetryPollFailed ==
    /\ pc = "halted" /\ exc[2] = "retry_poll"
    /\ exc[1] \in {"SystemExit", "ConnectionError"}

\* C5: a network or HTTP error on a retry poll ends the program: the counter
\* is not advanced by the failed poll, and no poll, sleep, download or
\* extraction follows.
C5_RetryPollErrorIsFatal ==
    /\ []((gets >= 2 /\ pollStatus >= 400) =>
            (pc = "halted" /\ exc = <<"SystemExit", "retry_poll">>))
    /\ []((gets >= 2 /\ pollStatus = 0) =>
            (pc = "halted" /\ exc = <<"ConnectionError", "retry_poll">>))
    /\ [](RetryPollFailed =>
            /\ counter = gets - 2 /\ sleeps = gets - 1
            /\ downloads = 0 /\ ~done /\ ~extracted /\ metadata = NoMetadata)
    /\ [][~RetryPollFailed]_vars

C5_Witness ==
    /\ RetryPollFailed
    /\ exc[1] = "SystemExit"
    /\ gets = 3 /\ counter = 1

\* C6: hg_assembly maps GRCh37 to hg19 and GRCh38 to hg38, leaves every other
\* string as it is (so applying it twice changes nothing more), and the
\* reference field of the posted payload is the normalized genome.
C6_AssemblyNormalized ==
    /\ hg_assembly("GRCh37") = "hg19"
    /\ hg_assembly("GRCh38") = "hg38"
    /\ \A g \in Genomes \ {"GRCh37", "GRCh38"} : hg_assembly(g) = g
    /\ \A g \in Genomes : hg_assembly(hg_assembly(g)) = hg_assembly(g)
    /\ posts >= 1 =>
          payload.reference =
              CASE genome = "GRCh37" -> "hg19"
                [] genome = "GRCh38" -> "hg38"
                [] OTHER -> genome

C6_Witness == posts = 1 /\ genome = "GRCh37" /\ payload.reference = "hg19"

\* the first five cells of each input row, as text and as read_csv parses them
TextFive == [i \in 1..Len(input) |-> SubSeq(input[i], 1, 5)]
ParsedFive == iloc(read_csv(input))
\* the rows of `frame` equal to an earlier row
Repeats(frame) ==
    {i \in 1..Len(frame) : \E j \in 1..(i - 1) : frame[j] = frame[i]}
OutFive(a) == SubSeq(cgi_input.rows[a], 1, 5)
Labelled ==
    \A a \in 1..Len(cgi_input.rows) :
        Len(cgi_input.rows[a]) = 6 /\ cgi_input.rows[a][6] = output

\* C7 as stated: of N rows with D exact duplicates of an earlier row on the
\* first five columns, N-D rows are written, one per distinct five-column
\* tuple of the input, no two agreeing on the five columns, each labelled with
\* the output name.
C7_ExactDuplicatesDropped ==
    pc # "prepare" =>
        /\ Len(cgi_input.rows) = Len(input) - Cardinality(Repeats(TextFive))
        /\ Len(cgi_input.rows) = Cardinality({TextFive[i] : i \in 1..Len(input)})
        /\ \A a, b \in 1..Len(cgi_input.rows) : a # b => OutFive(a) # OutFive(b)
        /\ Labelled

\* C7 amended: rows are compared on their first five columns as read_csv
\* parses them (missing-value cells equal, cells of an all-numeric column by
\* value); of N rows with D repeats of an earlier row in that sense, N-D
\* rows are written, the first occurrences in input order, no two agreeing on
\* the five columns, the sixth column never compared, each labelled with the
\* output name.
C7_ParsedDuplicatesDropped ==
    pc # "prepare" =>
        LET firsts == (1..Len(input)) \ Repeats(ParsedFive)
            rank(i) == Cardinality({j \in firsts : j <= i})
        IN  /\ Len(cgi_input.rows) = Len(input) - Cardinality(Repeats(ParsedFive))
            /\ \A a, b \in 1..Len(cgi_input.rows) : a # b => OutFive(a) # OutFive(b)
            /\ \A i \in firsts :
                  OutFive(rank(i)) = [c \in 1..5 |-> FormatCell(ParsedFive[i][c])]
            /\ Labelled
            /\ cgi_input.header = <<"CHROM", "POS", "ID", "REF", "ALT", "SAMPLE">>

\* three rows, the third a repeat of the first but for its sixth column, the
\* second between them different
C7_Witness ==
    /\ pc = "submit"
    /\ Len(input) = 3
    /\ ParsedFive[1] = ParsedFive[3] /\ ParsedFive[1] # ParsedFive[2]
    /\ input[1][6] # input[3][6]
    /\ Len(cgi_input.rows) = 2

\* C8 as stated: an HTTP error response to the download GET is caught and
\* reported like an exception, and is not taken for the archive.
C8_DownloadHttpErrorCaught ==
    (downloads = 1 /\ dlStatus >= 400) =>
        (OopsMsg \in printed /\ zip \in {"absent", "stale"})

\* C9 as stated: a retry poll answered with a transient status is re-sent
\* through the retry-configured session, up to 3 times, before the poll counts
\* as failed; the submission is posted once.
C9_PollingUsesRetrySession ==
    /\ posts <= 1
    /\ (exc = <<"SystemExit", "retry_poll">> /\ pollStatus \in status_forcelist) =>
          (http.sent > 0 /\ pollSends = 1 + RetryTotal)

\* C10 as stated: a failed first poll (a network error, or an HTTP error
\* status) propagates as an uncaught fault that is not SystemExit; the poller
\* does not go on to sleep or poll again, and the download is not reached.
C10_FirstPollFailureUncaught ==
    (gets = 1 /\ pollStatus # 200 /\ pc # "loop") =>
        /\ pc = "halted"
        /\ exc[1] # "SystemExit"
        /\ sleeps = 0 /\ downloads = 0 /\ ~done

====
